---- MODULE Spec2Model ----
(***************************************************************************)
(* The field-resolution and geometry pipeline of src/lib/deathCertPipeline *)
(* (runDeathCertificatePipeline and the functions it calls), as a state    *)
(* machine: one pipeline run is StartRun, then Extract when the extraction *)
(* model answers, then ShortCircuit or MapFields; Rerun is the caller      *)
(* invoking the pipeline again on the same page.  SerializerSpec applies   *)
(* toTopLeftOcrLines alone to word lists; DashboardSpec is the upload      *)
(* dashboard (src/app/page.tsx and its later version src/unnamed/part_000) *)
(* with its handlers and the processing call it awaits.                    *)
(*                                                                         *)
(* Numbers: pixel coordinates and page dimensions are integers, page       *)
(* dimensions are positive.  A quotient a / b is kept as an exact fraction *)
(* in lowest terms (Frac), so that Math.min, Math.max and 1 - x are        *)
(* computed on the value the division produced; IEEE rounding is not       *)
(* modelled.  Strings are TLA+ strings, template literals are \o.          *)
(***************************************************************************)
EXTENDS Integers, Sequences, FiniteSets, TLC

VARIABLES
  page,        \* tmpAzureOcr.analyzeResult.pages[0]: width and height
  words,       \* page.words, the ordered OCR word list
  response,    \* what the extraction model answers to generateContent
  pc,          \* position of the current run
  run,         \* number of pipeline runs started so far
  calls,       \* generateContent requests made by the current run
  request,     \* ocrLineText of the current run, embedded in the prompt
  fields,      \* value of extractFieldsFromGemini (NoFields is null)
  highlights,  \* the local `highlights` of mapFieldsToHighlights (before normalizeHighlights)
  result,      \* the list the run's promise resolves with
  history,     \* outcomes of the runs completed before the current one
  serialized,  \* the texts successive calls of toTopLeftOcrLines(words) returned
  dashboard,   \* the Dashboard source mounted: "page.tsx" or "part_000"
  uploads,     \* useState uploads: the uploaded files, each with id and highlights
  selectedId,  \* useState selectedId
  processingUploadId,  \* useState processingUploadId
  processingStage,     \* useState processingStage (part_000)
  rendered,    \* the state the last render saw: its closures and disabled attributes
  pending,     \* runProcessing calls waiting for their processing call to settle
  now          \* Date.now()

pipelineVars ==
  <<page, words, response, pc, run, calls, request, fields, highlights, result, history>>

dashboardVars ==
  <<dashboard, uploads, selectedId, processingUploadId, processingStage, rendered, pending, now>>

vars == <<pipelineVars, serialized, dashboardVars>>

\* ------------------------------------------------------------------ bounds

\* Mentions in one model response, over the four categories together.
MaxMentions == 3
\* OCR words on the page.
MaxWords == 2
\* Pipeline runs on one page.
MaxRuns == 2
\* OCR words in a list handed to the serializer alone.
MaxLines == 3
\* Calls of the serializer on one list.
MaxSerializations == 2
\* Uploaded files in the dashboard.
MaxUploads == 2
\* Files chosen in one file dialog.
MaxFiles == 2
\* runProcessing calls that may wait at one time.
MaxPending == 2

\* ------------------------------------------------------------- arithmetic

Abs(n) == IF n < 0 THEN -n ELSE n

RECURSIVE GCD(_, _)
GCD(a, b) == IF b = 0 THEN a ELSE GCD(b, a % b)

\* The number n / d (d > 0), in lowest terms.
Frac(n, d) ==
  LET g == GCD(Abs(n), d)
  IN  [n |-> n \div g, d |-> d \div g]

Zero == Frac(0, 1)
One == Frac(1, 1)

FLe(a, b) == a.n * b.d <= b.n * a.d
FMin(a, b) == IF FLe(a, b) THEN a ELSE b
FMax(a, b) == IF FLe(a, b) THEN b ELSE a
FSub(a, b) == Frac(a.n * b.d - b.n * a.d, a.d * b.d)

\* Math.min(...xs) and Math.max(...xs) of a non-empty list of integers.
RECURSIVE MathMin(_)
MathMin(xs) ==
  IF Len(xs) = 1 THEN xs[1]
  ELSE LET m == MathMin(Tail(xs)) IN IF xs[1] <= m THEN xs[1] ELSE m

RECURSIVE MathMax(_)
MathMax(xs) ==
  IF Len(xs) = 1 THEN xs[1]
  ELSE LET m == MathMax(Tail(xs)) IN IF xs[1] >= m THEN xs[1] ELSE m

\* ----------------------------------------------------------------- inputs

CategoryKeys == <<"name", "dateOfBirth", "address", "causeOfDeath">>

\* Top-left corners used by the inputs: two that OCR words have and one that
\* no OCR word has.
CornerA == <<10, 20>>
CornerC == <<150, 300>>
CornerZ == <<11, 20>>

\* OCR words (polygon[0..7] is polygon[1..8] here).  WordDoe is the word of the
\* single-word scenario; WordJohn has the same top-left corner, is skewed (its
\* extreme x and y are at other corners than the first) and reaches left of the
\* page; WordSt is far from both and reaches beyond a 200 x 400 page.
WordDoe == [content |-> "DOE", polygon |-> <<10, 20, 60, 20, 60, 40, 10, 40>>]
WordJohn == [content |-> "JOHN", polygon |-> <<10, 20, 160, 18, 158, 310, -5, 42>>]
WordSt == [content |-> "ST", polygon |-> <<150, 300, 260, 300, 260, 420, 150, 420>>]
WordPool == {WordDoe, WordJohn, WordSt}

Pages == {[width |-> 200, height |-> 400], [width |-> 50, height |-> 30]}

\* Word lists without repetition, up to MaxWords words.
RECURSIVE WordListsOfLen(_)
WordListsOfLen(k) ==
  IF k = 0 THEN {<<>>}
  ELSE {Append(l, w) : l \in WordListsOfLen(k - 1), w \in WordPool}

NoRepeat(l) == \A i, j \in DOMAIN l : i # j => l[i] # l[j]

WordLists ==
  UNION {{l \in WordListsOfLen(k) : NoRepeat(l)} : k \in 0..MaxWords}

GroupIds == {1, 2}

\* Schema-valid items a response may hold.
MentionPool ==
  UNION {{[word |-> "JOHN", coordinate |-> CornerA, groupId |-> g],
          [word |-> "DOE", coordinate |-> CornerC, groupId |-> g],
          [word |-> "SMITH", coordinate |-> CornerZ, groupId |-> g]} : g \in GroupIds}

\* Items that fail fieldItemSchema: coordinate of one or three numbers, no groupId.
BadItems ==
  {[word |-> "JOHN", coordinate |-> <<10>>, groupId |-> 1],
   [word |-> "JOHN", coordinate |-> <<10, 20, 0>>, groupId |-> 1],
   [word |-> "JOHN", coordinate |-> CornerA]}

Arr(items) == [type |-> "array", items |-> items]
JsonNull == [type |-> "null", items |-> <<>>]

EmptyObject == [k \in {"name", "dateOfBirth", "address", "causeOfDeath"} |-> Arr(<<>>)]

AppendTo(obj, key, item) == [obj EXCEPT ![key] = Arr(Append(obj[key].items, item))]

\* Objects with the four keys, each an array of schema-valid items, at most k
\* items in all.
RECURSIVE ValidObjects(_)
ValidObjects(k) ==
  IF k = 0 THEN {EmptyObject}
  ELSE LET prev == ValidObjects(k - 1)
       IN  prev \cup {AppendTo(o, c, m) :
                        o \in prev, c \in DOMAIN EmptyObject, m \in MentionPool}

\* A valid object of at most one item, damaged in one place: a key removed, a
\* key set to null, or an item that fails the item schema appended.
DamagedObjects ==
  LET base == ValidObjects(1)
  IN  {[k \in DOMAIN o \ {c} |-> o[k]] : o \in base, c \in DOMAIN EmptyObject}
        \cup {[o EXCEPT ![c] = JsonNull] : o \in base, c \in DOMAIN EmptyObject}
        \cup {AppendTo(o, c, b) : o \in base, c \in DOMAIN EmptyObject, b \in BadItems}

\* response.text: absent, not JSON, or the text of a JSON object.
Responses ==
  {[text |-> "none", json |-> EmptyObject], [text |-> "invalid", json |-> EmptyObject]}
    \cup {[text |-> "json", json |-> o] : o \in ValidObjects(MaxMentions) \cup DamagedObjects}

\* Words for the serializer alone: with WordDoe, WordJohn and WordSt, a second
\* word DOE at the corner of WordSt and a word whose polygon has no numbers.
WordDoeBelow == [content |-> "DOE", polygon |-> <<150, 300, 200, 300, 200, 320, 150, 320>>]
WordBare == [content |-> "AGE", polygon |-> <<>>]
SerializerWordPool == WordPool \cup {WordDoeBelow, WordBare}

\* Word lists of up to MaxLines words, a word may come more than once.
RECURSIVE SerializerListsOfLen(_)
SerializerListsOfLen(k) ==
  IF k = 0 THEN {<<>>}
  ELSE {Append(l, w) : l \in SerializerListsOfLen(k - 1), w \in SerializerWordPool}

SerializerWordLists == UNION {SerializerListsOfLen(k) : k \in 0..MaxLines}

\* ---------------------------------------------------- deathCertPipeline.ts

\* word.polygon[i] ?? 0 (i counted from 0).
PolygonOr0(word, i) == IF i + 1 \in DOMAIN word.polygon THEN word.polygon[i + 1] ELSE 0

\* `${word.content}:${x}, ${y}`
OcrLine(word) ==
  word.content \o ":" \o ToString(PolygonOr0(word, 0)) \o ", " \o ToString(PolygonOr0(word, 1))

\* lines.join(sep)
RECURSIVE Join(_, _)
Join(strs, sep) ==
  IF Len(strs) = 0 THEN ""
  ELSE IF Len(strs) = 1 THEN strs[1]
  ELSE strs[1] \o sep \o Join(Tail(strs), sep)

\* Mutant of toTopLeftOcrLines: a word whose top-left corner an earlier word of
\* the list has is left out.
toTopLeftOcrLinesDistinctCorners(ws) ==
  LET keep == {i \in DOMAIN ws :
                 \A j \in DOMAIN ws :
                   j < i => <<PolygonOr0(ws[j], 0), PolygonOr0(ws[j], 1)>>
                              # <<PolygonOr0(ws[i], 0), PolygonOr0(ws[i], 1)>>}
      kept == SelectSeq([i \in DOMAIN ws |-> i], LAMBDA i : i \in keep)
  IN  Join([k \in DOMAIN kept |-> OcrLine(ws[kept[k]])], "\n")

toTopLeftOcrLines(ws) == Join([i \in DOMAIN ws |-> OcrLine(ws[i])], "\n")

\* The Map key `${word.polygon[0] ?? 0},${word.polygon[1] ?? 0}` of an OCR word.
TopLeftKey(word) == ToString(PolygonOr0(word, 0)) \o "," \o ToString(PolygonOr0(word, 1))

\* `${v}` of the element i (counted from 0) of an array of numbers; an absent
\* element is undefined.
ElementText(arr, i) == IF i + 1 \in DOMAIN arr THEN ToString(arr[i + 1]) ELSE "undefined"

\* The lookup key `${x},${y}` with [x, y] = value.coordinate.
CoordinateKey(coordinate) == ElementText(coordinate, 0) \o "," \o ElementText(coordinate, 1)

\* Mutant of wordByTopLeft: the first word with a key is kept.
wordByTopLeftFirst(ws) ==
  [k \in {TopLeftKey(ws[i]) : i \in DOMAIN ws} |->
     LET first == CHOOSE i \in DOMAIN ws :
                    /\ TopLeftKey(ws[i]) = k
                    /\ \A j \in DOMAIN ws : TopLeftKey(ws[j]) = k => i <= j
     IN  ws[first]]

\* new Map(words.map(word => [key, word])): a later entry replaces an earlier one
\* with the same key.
wordByTopLeft(ws) ==
  [k \in {TopLeftKey(ws[i]) : i \in DOMAIN ws} |->
     LET last == CHOOSE i \in DOMAIN ws :
                   /\ TopLeftKey(ws[i]) = k
                   /\ \A j \in DOMAIN ws : TopLeftKey(ws[j]) = k => j <= i
     IN  ws[last]]

\* new Map<number, { words, ocrWords }>(): the entries in insertion order.
NewGroups == <<>>

\* Mutant of AddMention: the label is built from the matched OCR word's content.
AddMentionOcrContent(groups, value, lookup) ==
  LET key == CoordinateKey(value.coordinate)
  IN  IF key \notin DOMAIN lookup THEN groups
      ELSE LET matchedWord == lookup[key]
               at == {i \in DOMAIN groups : groups[i].groupId = value.groupId}
           IN  IF at # {}
               THEN LET i == CHOOSE i \in at : TRUE
                    IN  [groups EXCEPT ![i].words = Append(@, matchedWord.content),
                                       ![i].ocrWords = Append(@, matchedWord)]
               ELSE Append(groups, [groupId |-> value.groupId,
                                    words |-> <<matchedWord.content>>,
                                    ocrWords |-> <<matchedWord>>])

\* The body of values.forEach: one mention added to the groups.
AddMention(groups, value, lookup) ==
  LET key == CoordinateKey(value.coordinate)
  IN  IF key \notin DOMAIN lookup THEN groups
      ELSE LET matchedWord == lookup[key]
               at == {i \in DOMAIN groups : groups[i].groupId = value.groupId}
           IN  IF at # {}
               THEN LET i == CHOOSE i \in at : TRUE
                    IN  [groups EXCEPT ![i].words = Append(@, value.word),
                                       ![i].ocrWords = Append(@, matchedWord)]
               ELSE Append(groups, [groupId |-> value.groupId,
                                    words |-> <<value.word>>,
                                    ocrWords |-> <<matchedWord>>])

\* Mutant of CollectGroups: the loop ends at the first mention that matches no
\* OCR word.
RECURSIVE CollectGroupsUntilUnmatched(_, _, _)
CollectGroupsUntilUnmatched(groups, values, lookup) ==
  IF Len(values) = 0 THEN groups
  ELSE IF CoordinateKey(Head(values).coordinate) \notin DOMAIN lookup THEN groups
  ELSE CollectGroupsUntilUnmatched(AddMention(groups, Head(values), lookup),
                                   Tail(values), lookup)

\* values.forEach(...) from the first mention to the last.
RECURSIVE CollectGroups(_, _, _)
CollectGroups(groups, values, lookup) ==
  IF Len(values) = 0 THEN groups
  ELSE CollectGroups(AddMention(groups, Head(values), lookup), Tail(values), lookup)

\* groupWords.flatMap(word => [word.polygon[a], word.polygon[b], word.polygon[c], word.polygon[d]])
RECURSIVE Corners(_, _)
Corners(groupWords, at) ==
  IF Len(groupWords) = 0 THEN <<>>
  ELSE [i \in 1..Len(at) |-> Head(groupWords).polygon[at[i] + 1]]
         \o Corners(Tail(groupWords), at)

\* Mutant of allXs: only the top-left and bottom-right corners are read.
allXsDiagonal(groupWords) == Corners(groupWords, <<0, 4>>)

allXs(groupWords) == Corners(groupWords, <<0, 2, 4, 6>>)
allYs(groupWords) == Corners(groupWords, <<1, 3, 5, 7>>)

wordsToHighlight(groupWords, pageWidth, pageHeight, text, id) ==
  LET minX == MathMin(allXs(groupWords))
      maxX == MathMax(allXs(groupWords))
      minY == MathMin(allYs(groupWords))
      maxY == MathMax(allYs(groupWords))
  IN  [id |-> id,
       text |-> text,
       x |-> Frac(minX, pageWidth),
       y |-> Frac(minY, pageHeight),
       width |-> Frac(maxX - minX, pageWidth),
       height |-> Frac(maxY - minY, pageHeight)]

\* Mutant of NormalizeHighlight: width and height are clamped to [0, 1], not to
\* what is left of the page right of x and below y.
NormalizeHighlightAgainstOne(highlight) ==
  LET x == FMax(Zero, FMin(One, highlight.x))
      y == FMax(Zero, FMin(One, highlight.y))
      width == FMax(Zero, FMin(One, highlight.width))
      height == FMax(Zero, FMin(One, highlight.height))
  IN  [highlight EXCEPT !.x = x, !.y = y, !.width = width, !.height = height]

\* Mutant of NormalizeHighlight: width and height are clamped against the x and
\* y the highlight came with, not against the clamped ones.
NormalizeHighlightAgainstRaw(highlight) ==
  LET x == FMax(Zero, FMin(One, highlight.x))
      y == FMax(Zero, FMin(One, highlight.y))
      width == FMax(Zero, FMin(FSub(One, highlight.x), highlight.width))
      height == FMax(Zero, FMin(FSub(One, highlight.y), highlight.height))
  IN  [highlight EXCEPT !.x = x, !.y = y, !.width = width, !.height = height]

\* Mutant of NormalizeHighlight: width and height are cut by x and y, not clamped
\* to what is left of the page.
NormalizeHighlightCutByOrigin(highlight) ==
  LET x == FMax(Zero, FMin(One, highlight.x))
      y == FMax(Zero, FMin(One, highlight.y))
      width == FMax(Zero, FSub(FMin(One, highlight.width), x))
      height == FMax(Zero, FSub(FMin(One, highlight.height), y))
  IN  [highlight EXCEPT !.x = x, !.y = y, !.width = width, !.height = height]

\* The callback of highlights.map in normalizeHighlights.
NormalizeHighlight(highlight) ==
  LET x == FMax(Zero, FMin(One, highlight.x))
      y == FMax(Zero, FMin(One, highlight.y))
      width == FMax(Zero, FMin(FSub(One, x), highlight.width))
      height == FMax(Zero, FMin(FSub(One, y), highlight.height))
  IN  [highlight EXCEPT !.x = x, !.y = y, !.width = width, !.height = height]

normalizeHighlights(hs) == [i \in DOMAIN hs |-> NormalizeHighlight(hs[i])]

\* `${fieldLabel}: ${group.words.join(" ")}`
HighlightText(fieldLabel, groupWordStrings) ==
  fieldLabel \o ": " \o Join(groupWordStrings, " ")

\* Mutant of HighlightId: the id counts up with the runs.
HighlightIdByRun(fieldKey, groupId) ==
  "h-" \o fieldKey \o "-g-" \o ToString(groupId + run)

\* Mutant of HighlightId: the id leaves the category out.
HighlightIdNoKey(fieldKey, groupId) == "h-g-" \o ToString(groupId)

\* `h-${fieldKey}-g-${groupId}`
HighlightId(fieldKey, groupId) == "h-" \o fieldKey \o "-g-" \o ToString(groupId)

\* Mutant of mapFieldListToHighlights: the groups are emitted sorted by groupId.
mapFieldListToHighlightsSorted(fieldLabel, fieldKey, values, ws, pageWidth, pageHeight) ==
  LET groups == SortSeq(CollectGroups(NewGroups, values, wordByTopLeft(ws)),
                        LAMBDA a, b : a.groupId < b.groupId)
  IN  [i \in DOMAIN groups |->
         wordsToHighlight(groups[i].ocrWords, pageWidth, pageHeight,
                          HighlightText(fieldLabel, groups[i].words),
                          HighlightId(fieldKey, groups[i].groupId))]

\* [...groups.entries()].map(...): one highlight per Map entry, in insertion
\* order.  The closing .filter(Boolean) keeps every element (each is an object).
mapFieldListToHighlights(fieldLabel, fieldKey, values, ws, pageWidth, pageHeight) ==
  LET groups == CollectGroups(NewGroups, values, wordByTopLeft(ws))
  IN  [i \in DOMAIN groups |->
         wordsToHighlight(groups[i].ocrWords, pageWidth, pageHeight,
                          HighlightText(fieldLabel, groups[i].words),
                          HighlightId(fieldKey, groups[i].groupId))]

\* The array literal of mapFieldsToHighlights, before normalizeHighlights.
SpreadFieldLists(f, ws, pageWidth, pageHeight) ==
  mapFieldListToHighlights("Name", "name", f.name, ws, pageWidth, pageHeight)
    \o mapFieldListToHighlights("Date of Birth", "dateOfBirth", f.dateOfBirth, ws, pageWidth, pageHeight)
    \o mapFieldListToHighlights("Address", "address", f.address, ws, pageWidth, pageHeight)
    \o mapFieldListToHighlights("Cause of Death", "causeOfDeath", f.causeOfDeath, ws, pageWidth, pageHeight)

mapFieldsToHighlights(f, ws, pageWidth, pageHeight) ==
  normalizeHighlights(SpreadFieldLists(f, ws, pageWidth, pageHeight))

\* Mutant of ItemValid: coordinate is any array of numbers, not a 2-tuple.
ItemValidAnyArity(item) ==
  {"word", "coordinate", "groupId"} \subseteq DOMAIN item

\* fieldItemSchema on one item of an array.
ItemValid(item) ==
  /\ {"word", "coordinate", "groupId"} \subseteq DOMAIN item
  /\ Len(item.coordinate) = 2

\* fieldItemSchema: an array whose items all pass.
FieldItemsValid(value) ==
  /\ value.type = "array"
  /\ \A i \in DOMAIN value.items : ItemValid(value.items[i])

\* parsedFieldsSchema.safeParse(json).success
SchemaAccepts(json) ==
  \A i \in DOMAIN CategoryKeys :
    /\ CategoryKeys[i] \in DOMAIN json
    /\ FieldItemsValid(json[CategoryKeys[i]])

\* The value null of extractFieldsFromGemini ("no fields found").
NoFields == [found |-> FALSE]

\* parsed.data
ParsedData(json) ==
  [found |-> TRUE,
   name |-> json.name.items,
   dateOfBirth |-> json.dateOfBirth.items,
   address |-> json.address.items,
   causeOfDeath |-> json.causeOfDeath.items]

\* ------------------------------------------------------------- dashboard

\* null
Null == "null"

\* What a render reads of the state.
StateSeen == [uploads |-> uploads, selectedId |-> selectedId,
              processingUploadId |-> processingUploadId]

\* The useState initial values, as the first render sees them.
DashboardInit ==
  /\ uploads = <<>>
  /\ selectedId = Null
  /\ processingUploadId = Null
  /\ processingStage = Null
  /\ rendered = StateSeen
  /\ pending = <<>>
  /\ now = 0

\* `${Date.now()}-${index}`
UploadId(t, index) == ToString(t) \o "-" \o ToString(index)

\* files.map((file, index) => ({ id, name, file, imageUrl, highlights: [] })) for
\* n files chosen at time t; name, file and imageUrl are never read by the
\* handlers' conditions or updates and are left out.
NewUploads(t, n) == [k \in 1..n |-> [id |-> UploadId(t, k - 1), highlights |-> <<>>]]

\* What find gives when no upload has the id (undefined, or null after ?? null).
NoUpload == [id |-> Null]

\* list.find((item) => item.id === id): the first upload with the id.
FindUpload(list, id) ==
  LET at == {i \in DOMAIN list : list[i].id = id}
  IN  IF at = {} THEN NoUpload ELSE list[CHOOSE i \in at : \A j \in at : i <= j]

\* useMemo: uploads.find((upload) => upload.id === selectedId) ?? null
selectedUpload(seen) == FindUpload(seen.uploads, seen.selectedId)

\* processingUploadId !== null
isProcessing(seen) == seen.processingUploadId # Null

\* page.tsx, FAKE_HIGHLIGHTS.
FAKE_HIGHLIGHTS ==
  <<[id |-> "h-name", x |-> Frac(7, 100), y |-> Frac(15, 100),
     width |-> Frac(34, 100), height |-> Frac(5, 100), text |-> "Name: JOHN A DOE"],
    [id |-> "h-dob", x |-> Frac(7, 100), y |-> Frac(24, 100),
     width |-> Frac(23, 100), height |-> Frac(5, 100), text |-> "DOB: 02/14/1951"],
    [id |-> "h-dod", x |-> Frac(7, 100), y |-> Frac(31, 100),
     width |-> Frac(24, 100), height |-> Frac(5, 100), text |-> "Date of Death: 01/28/2026"],
    [id |-> "h-ssn", x |-> Frac(55, 100), y |-> Frac(24, 100),
     width |-> Frac(22, 100), height |-> Frac(5, 100), text |-> "SSN: XXX-XX-6789"],
    [id |-> "h-address", x |-> Frac(55, 100), y |-> Frac(32, 100),
     width |-> Frac(33, 100), height |-> Frac(9, 100),
     text |-> "Address: 123 Main St, Austin, TX"]>>

\* page.tsx, the callback of highlights.map in its normalizeHighlights.
pageNormalizeHighlight(highlight) ==
  LET x == FMax(Zero, FMin(One, highlight.x))
      y == FMax(Zero, FMin(One, highlight.y))
      width == FMax(Zero, FMin(FSub(One, x), highlight.width))
      height == FMax(Zero, FMin(FSub(One, y), highlight.height))
  IN  [highlight EXCEPT !.x = x, !.y = y, !.width = width, !.height = height]

\* page.tsx, normalizeHighlights.
pageNormalizeHighlights(hs) == [i \in DOMAIN hs |-> pageNormalizeHighlight(hs[i])]

\* A list the pipeline returns: the word DOE on a 200 x 400 page, named by one
\* mention.
SampleHighlights ==
  mapFieldsToHighlights(
    ParsedData(AppendTo(EmptyObject, "name",
                        [word |-> "JOHN", coordinate |-> CornerA, groupId |-> 1])),
    <<WordDoe>>, 200, 400)

\* How the awaited processing call can settle: fakeProcessCertificate resolves
\* with FAKE_HIGHLIGHTS; runOcrAiPipeline resolves with a list, which may be
\* empty, or throws.
Outcomes ==
  IF dashboard = "page.tsx"
  THEN {[kind |-> "resolved", result |-> FAKE_HIGHLIGHTS]}
  ELSE {[kind |-> "resolved", result |-> <<>>],
        [kind |-> "resolved", result |-> SampleHighlights],
        [kind |-> "thrown", result |-> <<>>]}

\* prev.map((upload) => upload.id === uploadId ? { ...upload, highlights } : upload)
ReplaceHighlights(prev, uploadId, hs) ==
  [i \in DOMAIN prev |->
     IF prev[i].id = uploadId THEN [prev[i] EXCEPT !.highlights = hs] ELSE prev[i]]

\* ---------------------------------------------------------------- actions

Init ==
  /\ page \in Pages
  /\ words \in WordLists
  /\ response \in Responses
  /\ pc = "idle"
  /\ run = 0
  /\ calls = 0
  /\ request = ""
  /\ fields = NoFields
  /\ highlights = <<>>
  /\ result = <<>>
  /\ history = <<>>
  /\ serialized = <<>>
  /\ dashboard = "page.tsx"
  /\ DashboardInit

\* runDeathCertificatePipeline up to the await of generateContent: the word list
\* is serialized and the request is sent.
StartRun ==
  /\ pc = "idle"
  /\ pc' = "awaiting"
  /\ run' = run + 1
  /\ request' = toTopLeftOcrLines(words)
  /\ calls' = calls + 1
  /\ UNCHANGED <<page, words, response, fields, highlights, result, history>>
  /\ UNCHANGED <<serialized, dashboardVars>>

\* extractFieldsFromGemini after the await: no text gives null, JSON.parse of a
\* text that is not JSON throws (nothing catches it: the run's promise rejects),
\* a parsed value gives its data when the schema accepts it and null otherwise.
Extract ==
  /\ pc = "awaiting"
  /\ \/ /\ response.text = "none"
        /\ fields' = NoFields
        /\ pc' = "extracted"
     \/ /\ response.text = "invalid"
        /\ fields' = fields
        /\ pc' = "rejected"
     \/ /\ response.text = "json"
        /\ fields' = IF SchemaAccepts(response.json) THEN ParsedData(response.json) ELSE NoFields
        /\ pc' = "extracted"
  /\ UNCHANGED <<page, words, response, run, calls, request, highlights, result, history>>
  /\ UNCHANGED <<serialized, dashboardVars>>

\* Mutant of ShortCircuit: no fields is raised as an error.
ShortCircuitThrows ==
  /\ pc = "extracted"
  /\ ~fields.found
  /\ pc' = "rejected"
  /\ UNCHANGED <<page, words, response, run, calls, request, fields, highlights, result, history>>
  /\ UNCHANGED <<serialized, dashboardVars>>

\* runDeathCertificatePipeline, `if (!fields) return []`.
ShortCircuit ==
  /\ pc = "extracted"
  /\ ~fields.found
  /\ result' = <<>>
  /\ pc' = "done"
  /\ UNCHANGED <<page, words, response, run, calls, request, fields, highlights, history>>
  /\ UNCHANGED <<serialized, dashboardVars>>

\* runDeathCertificatePipeline, `return mapFieldsToHighlights(...)`.
MapFields ==
  /\ pc = "extracted"
  /\ fields.found
  /\ highlights' = SpreadFieldLists(fields, words, page.width, page.height)
  /\ result' = normalizeHighlights(highlights')
  /\ pc' = "done"
  /\ UNCHANGED <<page, words, response, run, calls, request, fields, history>>
  /\ UNCHANGED <<serialized, dashboardVars>>

\* The caller invokes the pipeline again on the same page; the model's answer to
\* the same request is the same.  The finished run's outcome is recorded.
Rerun ==
  /\ pc \in {"done", "rejected"}
  /\ run < MaxRuns
  /\ history' = Append(history, [outcome |-> pc, result |-> result])
  /\ pc' = "idle"
  /\ calls' = 0
  /\ request' = ""
  /\ fields' = NoFields
  /\ highlights' = <<>>
  /\ result' = <<>>
  /\ UNCHANGED <<page, words, response, run>>
  /\ UNCHANGED <<serialized, dashboardVars>>

Next == StartRun \/ Extract \/ ShortCircuit \/ MapFields \/ Rerun

Spec == Init /\ [][Next]_vars

\* ------------------------------------------------- the serializer on its own

\* No pipeline run has started.
PipelineIdle ==
  /\ response = [text |-> "none", json |-> EmptyObject]
  /\ pc = "idle"
  /\ run = 0
  /\ calls = 0
  /\ request = ""
  /\ fields = NoFields
  /\ highlights = <<>>
  /\ result = <<>>
  /\ history = <<>>

SerializerInit ==
  /\ page \in Pages
  /\ words \in SerializerWordLists
  /\ PipelineIdle
  /\ serialized = <<>>
  /\ dashboard = "page.tsx"
  /\ DashboardInit

\* One call toTopLeftOcrLines(page.words).
Serialize ==
  /\ Len(serialized) < MaxSerializations
  /\ serialized' = Append(serialized, toTopLeftOcrLines(words))
  /\ UNCHANGED <<pipelineVars, dashboardVars>>

SerializerNext == Serialize

SerializerSpec == SerializerInit /\ [][SerializerNext]_vars

\* ------------------------------------------------------ the upload dashboard
\*
\* An event handler runs with the values of the last render.  The updates a
\* handler makes during a click or change event are rendered before the next
\* event is handled (the action sets `rendered` with the state); the updates
\* made after an await are rendered by a later step, Render.

DashboardStart ==
  /\ page = [width |-> 200, height |-> 400]
  /\ words = <<>>
  /\ PipelineIdle
  /\ serialized = <<>>
  /\ dashboard \in {"page.tsx", "part_000"}
  /\ DashboardInit

\* handleFiles, on the change event of the file input (disabled={isProcessing}):
\* n files are chosen at time t.
HandleFiles ==
  /\ ~isProcessing(rendered)
  /\ \E n \in 0..MaxFiles, t \in {now, now + 1} :
       /\ Len(uploads) + n <= MaxUploads
       /\ IF n = 0
          THEN UNCHANGED <<uploads, selectedId, now>>
          ELSE /\ uploads' = uploads \o NewUploads(t, n)
               /\ selectedId' = IF selectedId = Null THEN NewUploads(t, n)[1].id
                                                     ELSE selectedId
               /\ now' = t
  /\ rendered' = [uploads |-> uploads', selectedId |-> selectedId',
                  processingUploadId |-> processingUploadId]
  /\ UNCHANGED <<dashboard, processingUploadId, processingStage, pending>>
  /\ UNCHANGED <<pipelineVars, serialized>>

\* onClick={() => setSelectedId(upload.id)} of an upload list button
\* (disabled={isProcessing}).
SelectUpload ==
  /\ ~isProcessing(rendered)
  /\ \E i \in DOMAIN rendered.uploads : selectedId' = rendered.uploads[i].id
  /\ rendered' = [uploads |-> uploads, selectedId |-> selectedId',
                  processingUploadId |-> processingUploadId]
  /\ UNCHANGED <<dashboard, uploads, processingUploadId, processingStage, pending, now>>
  /\ UNCHANGED <<pipelineVars, serialized>>

\* runProcessing(uploadId) up to its await.  In part_000 the upload is looked up
\* in the uploads of the render; when it is not there the function returns
\* through finally, which leaves both states null.
RunProcessingStart(uploadId) ==
  IF dashboard = "part_000" /\ FindUpload(rendered.uploads, uploadId) = NoUpload
  THEN /\ processingUploadId' = Null
       /\ processingStage' = Null
       /\ pending' = pending
  ELSE /\ processingUploadId' = uploadId
       /\ processingStage' = IF dashboard = "part_000" THEN "ocr" ELSE processingStage
       /\ pending' = Append(pending, [uploadId |-> uploadId])

\* Mutant of HandleRunProcess: the handler does not look at isProcessing.
HandleRunProcessWhileProcessing ==
  /\ Len(pending) < MaxPending
  /\ IF selectedUpload(rendered) = NoUpload
     THEN UNCHANGED <<processingUploadId, processingStage, pending>>
     ELSE RunProcessingStart(selectedUpload(rendered).id)
  /\ rendered' = [uploads |-> uploads, selectedId |-> selectedId,
                  processingUploadId |-> processingUploadId']
  /\ UNCHANGED <<dashboard, uploads, selectedId, now>>
  /\ UNCHANGED <<pipelineVars, serialized>>

\* handleRunProcess.  The Run Process button is disabled on the handler's own
\* condition (disabled={!selectedUpload || isProcessing}); the handler is taken
\* to be called on every click, so that its condition decides.
HandleRunProcess ==
  /\ Len(pending) < MaxPending
  /\ IF selectedUpload(rendered) = NoUpload \/ isProcessing(rendered)
     THEN UNCHANGED <<processingUploadId, processingStage, pending>>
     ELSE RunProcessingStart(selectedUpload(rendered).id)
  /\ rendered' = [uploads |-> uploads, selectedId |-> selectedId,
                  processingUploadId |-> processingUploadId']
  /\ UNCHANGED <<dashboard, uploads, selectedId, now>>
  /\ UNCHANGED <<pipelineVars, serialized>>

\* part_000: the callback handed to runOcrAiPipeline, called while the call is
\* pending.
OnStageLlm ==
  /\ dashboard = "part_000"
  /\ pending # <<>>
  /\ processingStage' = "llm"
  /\ UNCHANGED <<dashboard, uploads, selectedId, processingUploadId, rendered, pending, now>>
  /\ UNCHANGED <<pipelineVars, serialized>>

\* Mutant of RunProcessingSettles: the reset is the last statement of the try
\* block, not a finally block.
RunProcessingSettlesNoFinally ==
  /\ pending # <<>>
  /\ \E o \in Outcomes :
       LET uploadId == Head(pending).uploadId
           hs == IF dashboard = "page.tsx" THEN pageNormalizeHighlights(o.result)
                                            ELSE o.result
       IN  IF o.kind = "resolved"
           THEN /\ uploads' = ReplaceHighlights(uploads, uploadId, hs)
                /\ processingUploadId' = Null
                /\ processingStage' = Null
           ELSE UNCHANGED <<uploads, processingUploadId, processingStage>>
  /\ pending' = Tail(pending)
  /\ UNCHANGED <<dashboard, selectedId, rendered, now>>
  /\ UNCHANGED <<pipelineVars, serialized>>

\* runProcessing after its await: the call resolved (setUploads replaces the
\* highlights of the uploads with the run's id; page.tsx normalizes the result
\* first) or threw; finally resets processingUploadId and processingStage.
RunProcessingSettles ==
  /\ pending # <<>>
  /\ \E o \in Outcomes :
       LET uploadId == Head(pending).uploadId
           hs == IF dashboard = "page.tsx" THEN pageNormalizeHighlights(o.result)
                                            ELSE o.result
       IN  /\ uploads' = IF o.kind = "resolved"
                           THEN ReplaceHighlights(uploads, uploadId, hs)
                           ELSE uploads
           /\ processingUploadId' = Null
           /\ processingStage' = Null
  /\ pending' = Tail(pending)
  /\ UNCHANGED <<dashboard, selectedId, rendered, now>>
  /\ UNCHANGED <<pipelineVars, serialized>>

\* The component renders with the state the updates after the await left.
Render ==
  /\ rendered # StateSeen
  /\ rendered' = StateSeen
  /\ UNCHANGED <<dashboard, uploads, selectedId, processingUploadId, processingStage,
                 pending, now>>
  /\ UNCHANGED <<pipelineVars, serialized>>

DashboardNext ==
  HandleFiles \/ SelectUpload \/ HandleRunProcess \/ OnStageLlm
    \/ RunProcessingSettles \/ Render

DashboardSpec == DashboardStart /\ [][DashboardNext]_vars

\* The awaited call settles and its continuation runs; a pending render is done.
DashboardFairSpec ==
  DashboardSpec /\ WF_vars(RunProcessingSettles) /\ WF_vars(Render)

\* ----------------------------------------------------------------- claims

\* The current run has ended: its promise resolved (done) or rejected.
Finished == pc \in {"done", "rejected"}

\* The mention's coordinate is the top-left corner of some OCR word of the page.
HasWordAt(coordinate) ==
  \E i \in DOMAIN words :
    /\ Len(coordinate) = 2
    /\ words[i].polygon[1] = coordinate[1]
    /\ words[i].polygon[2] = coordinate[2]

\* a + b of two fractions.
FAdd(a, b) == Frac(a.n * b.d + b.n * a.d, a.d * b.d)

InUnit(v) == FLe(Zero, v) /\ FLe(v, One)

\* C1: every highlight of the list a run returns has x, y, width and height in
\* [0,1], and x + width <= 1 and y + height <= 1.
C1_Containment ==
  pc = "done" =>
    \A i \in DOMAIN result :
      /\ InUnit(result[i].x) /\ InUnit(result[i].y)
      /\ InUnit(result[i].width) /\ InUnit(result[i].height)
      /\ FLe(FAdd(result[i].x, result[i].width), One)
      /\ FLe(FAdd(result[i].y, result[i].height), One)

\* A run returned a highlight whose box, before normalization, starts left of the
\* page and ends right of it, and one whose box lies wholly beyond the page.
C1_Witness ==
  /\ pc = "done"
  /\ \E i \in DOMAIN highlights :
       /\ ~FLe(Zero, highlights[i].x)
       /\ ~FLe(FAdd(highlights[i].x, highlights[i].width), One)
       /\ result[i].x = Zero
       /\ result[i].width = One
  /\ \E i \in DOMAIN highlights :
       /\ ~FLe(highlights[i].x, One)
       /\ result[i].x = One
       /\ result[i].width = Zero

\* C2: when the response text is not valid JSON, extractFieldsFromGemini yields
\* null, the run returns [] and no exception leaves the pipeline.
C2_InvalidJsonGivesEmpty ==
  (response.text = "invalid" /\ pc \notin {"idle", "awaiting"}) =>
    /\ pc \in {"extracted", "done"}
    /\ ~fields.found
    /\ pc = "done" => result = <<>>

\* Some place of the parsed response fails the schema: a category key is missing,
\* a category is not an array, an item has no groupId or a coordinate that is not
\* a pair.
FailsSchemaSomewhere(json) ==
  \E i \in DOMAIN CategoryKeys :
    \/ CategoryKeys[i] \notin DOMAIN json
    \/ json[CategoryKeys[i]].type # "array"
    \/ \E k \in DOMAIN json[CategoryKeys[i]].items :
         LET item == json[CategoryKeys[i]].items[k]
         IN  \/ "groupId" \notin DOMAIN item
             \/ "word" \notin DOMAIN item
             \/ "coordinate" \notin DOMAIN item
             \/ Len(item.coordinate) # 2

\* Some item of the parsed response passes the item schema and names the corner
\* of an OCR word of the page.
HasResolvableItem(json) ==
  \E c \in DOMAIN json : \E k \in DOMAIN json[c].items :
    LET item == json[c].items[k]
    IN  /\ "groupId" \in DOMAIN item
        /\ HasWordAt(item.coordinate)

\* C3: a parsed response that fails the schema in any place gives the empty list,
\* also when other items of it are valid and name OCR words.
C3_AllOrNothing ==
  (Finished /\ response.text = "json" /\ FailsSchemaSomewhere(response.json)) =>
    /\ pc = "done"
    /\ ~fields.found
    /\ highlights = <<>>
    /\ result = <<>>

\* A run ended on a response with a valid, resolvable item beside the place that
\* fails the schema.
C3_Witness ==
  /\ pc = "done"
  /\ response.text = "json"
  /\ FailsSchemaSomewhere(response.json)
  /\ HasResolvableItem(response.json)
  /\ \E c \in DOMAIN response.json : \E k \in DOMAIN response.json[c].items :
       Len(response.json[c].items[k].coordinate) # 2

\* The extraction yields no fields: the model returned no text, or every one of
\* the four categories of the validated response is an empty array.
YieldsNoFields ==
  \/ response.text = "none"
  \/ /\ response.text = "json"
     /\ \A i \in DOMAIN CategoryKeys :
          /\ CategoryKeys[i] \in DOMAIN response.json
          /\ response.json[CategoryKeys[i]] = [type |-> "array", items |-> <<>>]

\* C4: if the extraction yields no fields the run returns the empty list; with no
\* text, extractFieldsFromGemini gives null and the run returns without the
\* resolver (MapFields) being run.
C4_NoFieldsGivesEmpty ==
  /\ (Finished /\ YieldsNoFields) => (pc = "done" /\ result = <<>> /\ highlights = <<>>)
  /\ (pc = "extracted" /\ response.text = "none") =>
       (~fields.found /\ ~ENABLED MapFields /\ ENABLED ShortCircuit)

\* A run whose response had no text returned the empty list, with words on the
\* page.
C4_Witness ==
  /\ pc = "done"
  /\ response.text = "none"
  /\ ~fields.found
  /\ result = <<>>
  /\ Len(words) > 0

\* A run returned the resolver's list for validated fields.
Resolved == pc = "done" /\ fields.found

\* The mentions of one category of the validated response.
MentionsOf(key) == fields[key]

Resolvable(m) == HasWordAt(m.coordinate)

\* The OCR word a resolvable mention stands for: the last word of the list with
\* the mention's top-left corner.
WordAt(coordinate) ==
  LET at == {i \in DOMAIN words : /\ words[i].polygon[1] = coordinate[1]
                                  /\ words[i].polygon[2] = coordinate[2]}
  IN  words[CHOOSE i \in at : \A j \in at : j <= i]

\* The resolvable mentions of a category with one groupId, in response order.
GroupMentions(key, g) ==
  SelectSeq(MentionsOf(key), LAMBDA m : m.groupId = g /\ Resolvable(m))

\* The (category, groupId) pairs with at least one resolved mention.
ResolvedPairs ==
  {p \in {CategoryKeys[i] : i \in DOMAIN CategoryKeys} \X GroupIds :
     Len(GroupMentions(p[1], p[2])) > 0}

DisplayLabel(key) ==
  CASE key = "name" -> "Name"
    [] key = "dateOfBirth" -> "Date of Birth"
    [] key = "address" -> "Address"
    [] key = "causeOfDeath" -> "Cause of Death"

ExpectedId(key, g) == "h-" \o key \o "-g-" \o ToString(g)

\* The fields with every unresolvable mention removed.
StripUnresolvable(f) ==
  [found |-> TRUE,
   name |-> SelectSeq(f.name, Resolvable),
   dateOfBirth |-> SelectSeq(f.dateOfBirth, Resolvable),
   address |-> SelectSeq(f.address, Resolvable),
   causeOfDeath |-> SelectSeq(f.causeOfDeath, Resolvable)]

\* A category of three mentions of one group, exactly one of them unresolvable.
OneOfThreeUnresolvable(v) ==
  /\ Len(v) = 3
  /\ v[1].groupId = v[2].groupId /\ v[2].groupId = v[3].groupId
  /\ Cardinality({i \in 1..3 : ~Resolvable(v[i])}) = 1

\* C5: an unresolvable mention is dropped alone: the returned list is the list
\* the same response gives with every unresolvable mention removed, and a group
\* of three mentions with one unresolvable gives the highlight of the other two.
C5_UnresolvableDropped ==
  Resolved =>
    /\ result = mapFieldsToHighlights(StripUnresolvable(fields), words, page.width, page.height)
    /\ \A i \in DOMAIN CategoryKeys :
         LET key == CategoryKeys[i]
             v == MentionsOf(key)
         IN  OneOfThreeUnresolvable(v) =>
               LET rest == SelectSeq(v, Resolvable)
                   a == rest[1]
                   b == rest[2]
                   ofKey == {k \in DOMAIN result :
                               \E g \in GroupIds : result[k].id = ExpectedId(key, g)}
               IN  /\ Len(rest) = 2
                   /\ Cardinality(ofKey) = 1
                   /\ \A k \in ofKey :
                        result[k] =
                          NormalizeHighlight(
                            wordsToHighlight(<<WordAt(a.coordinate), WordAt(b.coordinate)>>,
                                             page.width, page.height,
                                             DisplayLabel(key) \o ": " \o a.word \o " " \o b.word,
                                             ExpectedId(key, a.groupId)))

\* A run on three mentions of one group, the middle one unresolvable and the two
\* others on different OCR words, returned one highlight.
C5_Witness ==
  /\ Resolved
  /\ OneOfThreeUnresolvable(fields.name)
  /\ ~Resolvable(fields.name[2])
  /\ fields.name[1].coordinate # fields.name[3].coordinate
  /\ Len(result) = 1

SetMin(S) == CHOOSE m \in S : \A n \in S : m <= n
SetMax(S) == CHOOSE m \in S : \A n \in S : m >= n

\* The OCR words resolved for a (category, groupId) pair.
GroupWordSet(key, g) ==
  {WordAt(GroupMentions(key, g)[k].coordinate) : k \in DOMAIN GroupMentions(key, g)}

CornerXs(W) == {w.polygon[i] : w \in W, i \in {1, 3, 5, 7}}
CornerYs(W) == {w.polygon[i] : w \in W, i \in {2, 4, 6, 8}}

\* C6: before normalization, the box of each group's highlight runs from the
\* least x and y to the greatest x and y over all four corners of all the
\* group's words (as fractions of the page), and covers every such corner.
C6_GroupUnionBox ==
  Resolved =>
    \A p \in ResolvedPairs :
      LET W == GroupWordSet(p[1], p[2])
          xs == CornerXs(W)
          ys == CornerYs(W)
      IN  \E k \in DOMAIN highlights :
            LET h == highlights[k]
            IN  /\ h.id = ExpectedId(p[1], p[2])
                /\ h.x = Frac(SetMin(xs), page.width)
                /\ h.y = Frac(SetMin(ys), page.height)
                /\ h.width = Frac(SetMax(xs) - SetMin(xs), page.width)
                /\ h.height = Frac(SetMax(ys) - SetMin(ys), page.height)
                /\ \A cx \in xs : /\ FLe(h.x, Frac(cx, page.width))
                                  /\ FLe(Frac(cx, page.width), FAdd(h.x, h.width))
                /\ \A cy \in ys : /\ FLe(h.y, Frac(cy, page.height))
                                  /\ FLe(Frac(cy, page.height), FAdd(h.y, h.height))

\* A run built a group from a skewed word and a word that overlaps it.
C6_Witness ==
  /\ Resolved
  /\ \E p \in ResolvedPairs : GroupWordSet(p[1], p[2]) = {WordJohn, WordSt}

RECURSIVE FirstSeen(_)
FirstSeen(v) ==
  IF Len(v) = 0 THEN <<>>
  ELSE LET before == FirstSeen(SubSeq(v, 1, Len(v) - 1))
           g == v[Len(v)].groupId
       IN  IF \E k \in DOMAIN before : before[k] = g THEN before ELSE Append(before, g)

IdsOf(key, gs) == [k \in DOMAIN gs |-> ExpectedId(key, gs[k])]

ResultIds == [k \in DOMAIN result |-> result[k].id]

\* The groups of a category that have a highlight, ordered by the first mention
\* of their groupId in the response, resolvable or not.
GroupsByFirstMention(key) ==
  SelectSeq(FirstSeen(MentionsOf(key)), LAMBDA g : <<key, g>> \in ResolvedPairs)

\* The groups of a category ordered by their first resolvable mention.
GroupsByFirstResolved(key) == FirstSeen(SelectSeq(MentionsOf(key), Resolvable))

\* C8 as claimed: categories in the order name, dateOfBirth, address,
\* causeOfDeath, and within a category the groups in the order their groupIds
\* first occur in the model response.
C8_OrderByFirstMention ==
  Resolved =>
    ResultIds = IdsOf("name", GroupsByFirstMention("name"))
                  \o IdsOf("dateOfBirth", GroupsByFirstMention("dateOfBirth"))
                  \o IdsOf("address", GroupsByFirstMention("address"))
                  \o IdsOf("causeOfDeath", GroupsByFirstMention("causeOfDeath"))

\* C8 as amended: within a category the groups are in the order of their first
\* resolved mention (a mention that matches no OCR word does not place its group).
C8_OrderByFirstResolved ==
  Resolved =>
    ResultIds = IdsOf("name", GroupsByFirstResolved("name"))
                  \o IdsOf("dateOfBirth", GroupsByFirstResolved("dateOfBirth"))
                  \o IdsOf("address", GroupsByFirstResolved("address"))
                  \o IdsOf("causeOfDeath", GroupsByFirstResolved("causeOfDeath"))

\* A run on interleaved mentions (group 2, group 1, group 2, all resolved) in one
\* category returned group 2 before group 1.
C8_Witness ==
  /\ Resolved
  /\ \E i \in DOMAIN CategoryKeys :
       LET v == MentionsOf(CategoryKeys[i])
       IN  /\ Len(v) = 3
           /\ \A k \in 1..3 : Resolvable(v[k])
           /\ v[1].groupId = 2 /\ v[2].groupId = 1 /\ v[3].groupId = 2
           /\ ResultIds = <<ExpectedId(CategoryKeys[i], 2), ExpectedId(CategoryKeys[i], 1)>>

\* C9: the returned list has exactly one highlight, with id h-<key>-g-<groupId>,
\* for each (category, groupId) pair with a resolved mention and none for any
\* other pair; no two highlights share an id.
C9_OneHighlightPerPair ==
  Resolved =>
    /\ {result[k].id : k \in DOMAIN result} = {ExpectedId(p[1], p[2]) : p \in ResolvedPairs}
    /\ Len(result) = Cardinality(ResolvedPairs)
    /\ \A j, k \in DOMAIN result : j # k => result[j].id # result[k].id

\* A run on one groupId used under two categories, and a third category with
\* only an unresolvable mention, returned two highlights.
C9_Witness ==
  /\ Resolved
  /\ Len(result) = 2
  /\ \E g \in GroupIds : {<<"name", g>>, <<"address", g>>} = ResolvedPairs
  /\ Len(fields.causeOfDeath) = 1

\* C10: a group's text is the display label, ": ", and the word strings of the
\* group's resolved mentions joined by single spaces in response order.
C10_TextFromMentionWords ==
  Resolved =>
    \A p \in ResolvedPairs :
      \E k \in DOMAIN result :
        /\ result[k].id = ExpectedId(p[1], p[2])
        /\ LET ms == GroupMentions(p[1], p[2])
           IN  result[k].text =
                 DisplayLabel(p[1]) \o ": " \o Join([j \in DOMAIN ms |-> ms[j].word], " ")

\* A run on a group whose mentions are listed against reading order, with words
\* that differ from the matched OCR words' content.
C10_Witness ==
  /\ Resolved
  /\ words = <<WordDoe, WordSt>>
  /\ \E k \in DOMAIN result : result[k].text = "Name: DOE JOHN"

\* clamp(v, lo, hi) for lo <= hi.
Clamp(v, lo, hi) == IF ~FLe(lo, v) THEN lo ELSE IF ~FLe(v, hi) THEN hi ELSE v

\* C11: the normalizer returns one highlight per input highlight, in the same
\* order, with id and text unchanged, and for a group box (minX, minY, maxX, maxY)
\* x = clamp(minX/pageWidth, 0, 1), y = clamp(minY/pageHeight, 0, 1),
\* width = clamp((maxX-minX)/pageWidth, 0, 1-x), height likewise against 1-y; a
\* box inside the page is unchanged, and on a 200 x 400 page the word with polygon
\* [10,20,60,20,60,40,10,40] gives x = 0.05, y = 0.05, width = 0.25, height = 0.05.
C11_NormalizerFormula ==
  Resolved =>
    /\ Len(result) = Len(highlights)
    /\ \A k \in DOMAIN highlights :
         /\ result[k].id = highlights[k].id
         /\ result[k].text = highlights[k].text
         /\ DOMAIN result[k] = DOMAIN highlights[k]
         /\ (/\ FLe(Zero, highlights[k].x) /\ FLe(Zero, highlights[k].y)
             /\ FLe(FAdd(highlights[k].x, highlights[k].width), One)
             /\ FLe(FAdd(highlights[k].y, highlights[k].height), One))
              => result[k] = highlights[k]
    /\ \A p \in ResolvedPairs :
         LET W == GroupWordSet(p[1], p[2])
             minX == SetMin(CornerXs(W))
             maxX == SetMax(CornerXs(W))
             minY == SetMin(CornerYs(W))
             maxY == SetMax(CornerYs(W))
             x == Clamp(Frac(minX, page.width), Zero, One)
             y == Clamp(Frac(minY, page.height), Zero, One)
         IN  \E k \in DOMAIN result :
               /\ result[k].id = ExpectedId(p[1], p[2])
               /\ result[k].x = x
               /\ result[k].y = y
               /\ result[k].width = Clamp(Frac(maxX - minX, page.width), Zero, FSub(One, x))
               /\ result[k].height = Clamp(Frac(maxY - minY, page.height), Zero, FSub(One, y))
               /\ (page = [width |-> 200, height |-> 400] /\ W = {WordDoe}) =>
                    /\ result[k].x = Frac(5, 100)
                    /\ result[k].y = Frac(5, 100)
                    /\ result[k].width = Frac(25, 100)
                    /\ result[k].height = Frac(5, 100)

\* A run on the 200 x 400 page returned the highlight of the single word DOE,
\* unchanged by the clamp.
C11_Witness ==
  /\ Resolved
  /\ page = [width |-> 200, height |-> 400]
  /\ words = <<WordDoe>>
  /\ Len(result) = 1
  /\ result = highlights
  /\ result[1].x = Frac(1, 20) /\ result[1].width = Frac(1, 4)

\* The box of one OCR word as fractions of the page: x, y, width, height.
WordBox(w) ==
  LET xs == CornerXs({w})
      ys == CornerYs({w})
  IN  <<Frac(SetMin(xs), page.width), Frac(SetMin(ys), page.height),
        Frac(SetMax(xs) - SetMin(xs), page.width),
        Frac(SetMax(ys) - SetMin(ys), page.height)>>

BoxOf(h) == <<h.x, h.y, h.width, h.height>>

SameCorner(v, w) == v.polygon[1] = w.polygon[1] /\ v.polygon[2] = w.polygon[2]

\* C12: when two OCR words have the same top-left corner, a mention at that
\* corner stands for the one that comes last in the OCR word list: the box of a
\* group whose mentions are all at that corner is the box of the last word's
\* polygon and not that of the earlier word.
C12_LastWordWins ==
  Resolved =>
    \A i, j \in DOMAIN words :
      (/\ i < j
       /\ SameCorner(words[i], words[j])
       /\ \A l \in DOMAIN words : SameCorner(words[l], words[j]) => l <= j) =>
        \A key \in DOMAIN EmptyObject, g \in GroupIds :
          LET at == {n \in DOMAIN fields[key] :
                       /\ fields[key][n].groupId = g
                       /\ fields[key][n].coordinate = <<words[j].polygon[1], words[j].polygon[2]>>}
              other == {n \in DOMAIN fields[key] :
                          /\ fields[key][n].groupId = g
                          /\ n \notin at
                          /\ Resolvable(fields[key][n])}
          IN  (at # {} /\ other = {}) =>
                \E k \in DOMAIN highlights :
                  /\ highlights[k].id = ExpectedId(key, g)
                  /\ BoxOf(highlights[k]) = WordBox(words[j])
                  /\ BoxOf(highlights[k]) # WordBox(words[i])

\* A run on the words DOE then JOHN, both with top-left corner (10, 20), and a
\* single mention at that corner returned the box of JOHN's polygon.
C12_Witness ==
  /\ Resolved
  /\ words = <<WordDoe, WordJohn>>
  /\ Len(fields.name) = 1
  /\ fields.name[1].coordinate = CornerA
  /\ Len(highlights) = 1
  /\ BoxOf(highlights[1]) = WordBox(WordJohn)
  /\ BoxOf(highlights[1]) # WordBox(WordDoe)

\* The line of the word at place i of the list.
ExpectedLine(i) ==
  LET w == words[i]
      x == IF Len(w.polygon) >= 1 THEN w.polygon[1] ELSE 0
      y == IF Len(w.polygon) >= 2 THEN w.polygon[2] ELSE 0
  IN  w.content \o ":" \o ToString(x) \o ", " \o ToString(y)

\* The lines of the first n words, each but the first after a newline.
RECURSIVE ExpectedText(_)
ExpectedText(n) ==
  IF n = 0 THEN ""
  ELSE IF n = 1 THEN ExpectedLine(1)
  ELSE ExpectedText(n - 1) \o "\n" \o ExpectedLine(n)

RECURSIVE SumOfLengths(_)
SumOfLengths(n) == IF n = 0 THEN 0 ELSE SumOfLengths(n - 1) + Len(ExpectedLine(n))

\* C13: the text sent to the model has exactly one line content:x, y per OCR
\* word, in the order of the word list, joined by newlines; no word is left out
\* or merged (words of equal content or equal corner keep their own lines), and
\* serializing the same list again gives the same text.
C13_OneLinePerWord ==
  \A k \in DOMAIN serialized :
    /\ serialized[k] = ExpectedText(Len(words))
    /\ Len(serialized[k]) =
         SumOfLengths(Len(words)) + (IF Len(words) = 0 THEN 0 ELSE Len(words) - 1)
    /\ serialized[k] = serialized[1]

\* The list DOE, JOHN (same corner), DOE (same content, other corner) was
\* serialized twice into three lines.
C13_Witness ==
  /\ words = <<WordDoe, WordJohn, WordDoeBelow>>
  /\ Len(serialized) = 2
  /\ serialized[2] = "DOE:10, 20\nJOHN:10, 20\nDOE:150, 300"

\* The model's answer has no text, a text that is not JSON, or a JSON value the
\* schema rejects.
EmptyOrMalformed ==
  \/ response.text \in {"none", "invalid"}
  \/ response.text = "json" /\ ~SchemaAccepts(response.json)

\* C14: a run makes exactly one extraction call, after the word list was
\* serialized and before anything is resolved; when the answer is empty or
\* malformed the run ends with an empty result and without a second call.
C14_OneCallNoRetry ==
  /\ pc # "idle" => calls = 1 /\ request = ExpectedText(Len(words))
  /\ pc \in {"awaiting", "extracted"} => highlights = <<>> /\ result = <<>>
  /\ (Finished /\ EmptyOrMalformed) =>
       /\ pc = "done"
       /\ result = <<>>
       /\ calls = 1

\* The ids of the upload list, in list order.
UploadIds(list) == [i \in DOMAIN list |-> list[i].id]

\* C15: in the dashboard at most one processing run is in flight, and it holds
\* processingUploadId; no runProcessing starts while processingUploadId is not
\* null; while a run is in progress the selection, the uploads in the list and
\* (until the run ends) their highlights do not change.
C15_OneRunInFlight ==
  /\ [](/\ Len(pending) <= 1
        /\ pending # <<>> => processingUploadId = pending[1].uploadId)
  /\ [][Len(pending') > Len(pending) => processingUploadId = Null /\ pending = <<>>]_vars
  /\ [][processingUploadId # Null =>
          /\ selectedId' = selectedId
          /\ UploadIds(uploads') = UploadIds(uploads)
          /\ processingUploadId' # Null => uploads' = uploads]_vars

\* A run is in flight for the selected one of two uploads, after an earlier run
\* gave an upload its highlights.
C15_Witness ==
  /\ Len(pending) = 1
  /\ processingUploadId = selectedId
  /\ Len(uploads) = 2
  /\ uploads[1].id # uploads[2].id
  /\ \E i \in DOMAIN uploads : uploads[i].highlights # <<>>

\* C16: every processing run releases the lock: once processingUploadId is set
\* it is reset to null, and processingStage with it, however the processing call
\* settles; the step that ends a run changes no upload but those with the run's
\* id, and of those only the highlights.
C16_LockReleased ==
  /\ (processingUploadId # Null) ~> (processingUploadId = Null /\ processingStage = Null)
  /\ [](processingUploadId = Null => processingStage = Null /\ pending = <<>>)
  /\ [][Len(pending') < Len(pending) =>
          /\ processingUploadId' = Null
          /\ processingStage' = Null
          /\ UploadIds(uploads') = UploadIds(uploads)
          /\ \A i \in DOMAIN uploads :
               uploads[i].id # Head(pending).uploadId => uploads'[i] = uploads[i]]_vars

\* A run of the part_000 dashboard ended and released the lock: the upload it
\* was started for has highlights, another upload has none.
C16_Witness ==
  /\ dashboard = "part_000"
  /\ processingUploadId = Null
  /\ processingStage = Null
  /\ pending = <<>>
  /\ \E i, j \in DOMAIN uploads :
       /\ uploads[i].id = selectedId
       /\ uploads[i].highlights = SampleHighlights
       /\ uploads[j].id # selectedId
       /\ uploads[j].highlights = <<>>

\* C17: normalizing the list a run returned, with the pipeline's
\* normalizeHighlights or with the dashboard's, gives the same list: no x, y,
\* width or height changes.
C17_NormalizeIdempotent ==
  pc = "done" =>
    /\ normalizeHighlights(result) = result
    /\ pageNormalizeHighlights(result) = result
    /\ \A k \in DOMAIN result :
         BoxOf(pageNormalizeHighlight(result[k])) = BoxOf(result[k])

\* A run returned a highlight that the clamp had changed, and normalizing it
\* again leaves it as it is.
C17_Witness ==
  /\ Resolved
  /\ Len(result) >= 1
  /\ result[1] # highlights[1]
  /\ FLe(One, FAdd(result[1].x, result[1].width))
  /\ pageNormalizeHighlights(result) = result

====
